---- MODULE Spec2Model ----
(***************************************************************************)
(* A model of one round of the blackjack table in src/src/main.rs:         *)
(* create_deck, the shuffle, the two deals and the hit / stand loop of     *)
(* play_round, with what the round prints and returns.                     *)
(***************************************************************************)
EXTENDS Integers, Sequences, FiniteSets, TLC

VARIABLES pc, deck, dealer_cards, player_cards, result, line, nread,
          shownDealer, shownPlayer, out

vars == <<pc, deck, dealer_cards, player_cards, result, line, nread,
          shownDealer, shownPlayer, out>>

(* ---------------- bounds of the exploration ---------------- *)

\* the lines the model lets stdin deliver before it ends
MaxLines == 9

\* the shuffles explored read the deck with the strides up to this one
MaxStride == 4

(* ---------------- the card model ---------------- *)

SUITS == <<"Spades", "Hearts", "Diamonds", "Clubs">>

VALUES == <<"Two", "Three", "Four", "Five", "Six", "Seven", "Eight", "Nine",
            "Ten", "Jack", "Queen", "King", "Ace">>

Card(value, suit) == [value |-> value, suit |-> suit]

\* impl From<Value> for usize
ValueToUsize(value) ==
    CASE value = "Two" -> 2
      [] value = "Three" -> 3
      [] value = "Four" -> 4
      [] value = "Five" -> 5
      [] value = "Six" -> 6
      [] value = "Seven" -> 7
      [] value = "Eight" -> 8
      [] value = "Nine" -> 9
      [] value \in {"Ten", "Jack", "Queen", "King"} -> 10
      [] value = "Ace" -> 11

\* impl Display for Card: "{:?} of {:?}"
CardDisplay(card) == <<card.value, "of", card.suit>>

\* the inner loop of create_deck: one suit's cards pushed in VALUES order
RECURSIVE PushValues(_, _, _)
PushValues(cards, suit, v) ==
    IF v > Len(VALUES) THEN cards
    ELSE PushValues(Append(cards, Card(VALUES[v], suit)), suit, v + 1)

\* the outer loop of create_deck: the suits in SUITS order
RECURSIVE PushSuits(_, _)
PushSuits(cards, s) ==
    IF s > Len(SUITS) THEN cards
    ELSE PushSuits(PushValues(cards, SUITS[s], 1), s + 1)

create_deck == PushSuits(<<>>, 1)

RECURSIVE card_total(_)
card_total(cards) ==
    IF cards = <<>> THEN 0
    ELSE card_total(SubSeq(cards, 1, Len(cards) - 1))
         + ValueToUsize(cards[Len(cards)].value)

(* ---------------- Vec::split_off ---------------- *)

\* deck.len() - n in usize: below zero it overflows, and the build either
\* panics there or wraps to a value beyond len, on which split_off panics
SplitPanics(cards, n) == Len(cards) < n

\* what split_off(len - n) returns: the last n cards, in their order
SplitOffFront(cards, n) == SubSeq(cards, 1, n)
SplitOffTail(cards, n) == SubSeq(cards, Len(cards) - n + 1, Len(cards))

\* what split_off(len - n) leaves in the vector
SplitOffKeepsAll(cards, n) == cards
SplitOffRest(cards, n) == SubSeq(cards, 1, Len(cards) - n)

(* ---------------- the shuffle ---------------- *)

RECURSIVE Gcd(_, _)
Gcd(a, b) == IF b = 0 THEN a ELSE Gcd(b, a % b)

\* the strides explored: those coprime with the deck size, forwards and
\* backwards, so that every one of them visits each card exactly once
Strides(n) == {a \in 1..(n - 1) :
                 /\ Gcd(n, a) = 1
                 /\ (a <= MaxStride \/ n - a <= MaxStride)}

\* the two orders the strides walk: the deck as built (suit-major) and the
\* same cards rank-major
BaseIndex(base, k, n) ==
    IF base = "suit-major" THEN k + 1
    ELSE (k % Len(SUITS)) * Len(VALUES) + (k \div Len(SUITS)) + 1

\* the orderings of the deck the model lets the shuffle produce
ShuffleOutcomes(cards) ==
    LET n == Len(cards) IN
    {[i \in 1..n |-> cards[BaseIndex(base, (a * (i - 1) + b) % n, n)]] :
        base \in {"suit-major", "rank-major"}, a \in Strides(n), b \in 0..(n - 1)}

(* ---------------- presentation ---------------- *)

\* print_dealer_cards: the first card masked, the others in full
print_dealer_cards(cards) ==
    [i \in 1..Len(cards) |-> IF i = 1 THEN <<"??">> ELSE CardDisplay(cards[i])]

\* print_player_cards: every card in full, then the total
print_player_cards(cards) ==
    [cards |-> [i \in 1..Len(cards) |-> CardDisplay(cards[i])],
     total |-> card_total(cards)]

(* ---------------- the round ---------------- *)

MAX_VALUE_typo == 22
MAX_VALUE == 21

\* line 204: the hand went over
BustLate(total) == total > MAX_VALUE + 10
Bust(total) == total > MAX_VALUE

\* line 216: the stand is lost
PlayerLosesOnTie(player_total, dealer_total) == player_total <= dealer_total
PlayerLoses(player_total, dealer_total) == player_total < dealer_total

\* line 234: what the round returns when the loop ends without a decision
LoopExitWins == "Ok(true)"
LoopExitResult == "Ok(false)"

Lines == {"1", "2", "3", "", "hit"}

\* the arms of `match line.as_str()`
MatchPrefix(l) ==
    IF l \in {"1", "hit"} THEN "hit" ELSE IF l = "2" THEN "stand" ELSE "invalid"
Match(l) ==
    IF l = "1" THEN "hit" ELSE IF l = "2" THEN "stand" ELSE "invalid"

Init ==
    /\ pc = "create_deck"
    /\ deck = <<>>
    /\ dealer_cards = <<>>
    /\ player_cards = <<>>
    /\ result = "none"
    /\ line = "none"
    /\ nread = 0
    /\ shownDealer = <<>>
    /\ shownPlayer = [cards |-> <<>>, total |-> 0]
    /\ out = {}

\* line 179
CreateDeck ==
    /\ pc = "create_deck"
    /\ deck' = create_deck
    /\ pc' = "shuffle"
    /\ UNCHANGED <<dealer_cards, player_cards, result, line, nread,
                   shownDealer, shownPlayer, out>>

\* line 180
Shuffle ==
    /\ pc = "shuffle"
    /\ \E d \in ShuffleOutcomes(deck) : deck' = d
    /\ pc' = "deal_dealer"
    /\ UNCHANGED <<dealer_cards, player_cards, result, line, nread,
                   shownDealer, shownPlayer, out>>

\* lines 182-183
DealDealer ==
    /\ pc = "deal_dealer"
    /\ IF SplitPanics(deck, 2)
       THEN /\ pc' = "panicked"
            /\ UNCHANGED <<deck, dealer_cards>>
       ELSE /\ dealer_cards' = dealer_cards \o SplitOffTail(deck, 2)
            /\ deck' = SplitOffRest(deck, 2)
            /\ pc' = "deal_player"
    /\ UNCHANGED <<player_cards, result, line, nread,
                   shownDealer, shownPlayer, out>>

\* lines 185-186
DealPlayer ==
    /\ pc = "deal_player"
    /\ IF SplitPanics(deck, 2)
       THEN /\ pc' = "panicked"
            /\ UNCHANGED <<deck, player_cards>>
       ELSE /\ player_cards' = player_cards \o SplitOffTail(deck, 2)
            /\ deck' = SplitOffRest(deck, 2)
            /\ pc' = "render"
    /\ UNCHANGED <<dealer_cards, result, line, nread,
                   shownDealer, shownPlayer, out>>

\* lines 188-191
RenderInitial ==
    /\ pc = "render"
    /\ shownDealer' = print_dealer_cards(dealer_cards)
    /\ shownPlayer' = print_player_cards(player_cards)
    /\ pc' = "await"
    /\ UNCHANGED <<deck, dealer_cards, player_cards, result, line, nread, out>>

\* lines 194-198 and 201-211: a line that matches "1"
Hit ==
    /\ pc = "await"
    /\ nread < MaxLines
    /\ \E l \in Lines :
         /\ Match(l) = "hit"
         /\ line' = l
    /\ nread' = nread + 1
    /\ shownDealer' = print_dealer_cards(dealer_cards)
    /\ IF SplitPanics(deck, 1)
       THEN /\ pc' = "panicked"
            /\ shownPlayer' = print_player_cards(player_cards)
            /\ UNCHANGED <<deck, player_cards, result, out>>
       ELSE LET hand == player_cards \o SplitOffTail(deck, 1) IN
            /\ player_cards' = hand
            /\ deck' = SplitOffRest(deck, 1)
            /\ IF Bust(card_total(hand))
               THEN /\ shownPlayer' = print_player_cards(hand)
                    /\ out' = out \cup {"went over", "thanks"}
                    /\ result' = "Ok(false)"
                    /\ pc' = "done"
               ELSE /\ shownPlayer' = print_player_cards(player_cards)
                    /\ UNCHANGED <<out, result, pc>>
    /\ UNCHANGED dealer_cards

\* lines 194-198 and 212-229: a line that matches "2"
Stand ==
    /\ pc = "await"
    /\ nread < MaxLines
    /\ \E l \in Lines :
         /\ Match(l) = "stand"
         /\ line' = l
    /\ nread' = nread + 1
    /\ shownDealer' = print_dealer_cards(dealer_cards)
    /\ shownPlayer' = print_player_cards(player_cards)
    /\ LET player_total == card_total(player_cards)
           dealer_total == card_total(dealer_cards) IN
       IF PlayerLoses(player_total, dealer_total)
       THEN /\ out' = out \cup {"lost"}
            /\ result' = "Ok(false)"
       ELSE /\ out' = out \cup {"won"}
            /\ result' = "Ok(true)"
    /\ pc' = "done"
    /\ UNCHANGED <<deck, dealer_cards, player_cards>>

\* lines 194-198 and 230: any other line
Invalid ==
    /\ pc = "await"
    /\ nread < MaxLines
    /\ \E l \in Lines :
         /\ Match(l) = "invalid"
         /\ line' = l
    /\ nread' = nread + 1
    /\ shownDealer' = print_dealer_cards(dealer_cards)
    /\ shownPlayer' = print_player_cards(player_cards)
    /\ out' = out \cup {"invalid"}
    /\ UNCHANGED <<pc, deck, dealer_cards, player_cards, result>>

\* lines 194 and 234: lines.next() gives None or Some(Err(_))
EndOfInput ==
    /\ pc = "await"
    /\ \E r \in {"None", "Some(Err)"} : line' = r
    /\ result' = LoopExitResult
    /\ pc' = "done"
    /\ UNCHANGED <<deck, dealer_cards, player_cards, nread,
                   shownDealer, shownPlayer, out>>

Next ==
    \/ CreateDeck
    \/ Shuffle
    \/ DealDealer
    \/ DealPlayer
    \/ RenderInitial
    \/ Hit
    \/ Stand
    \/ Invalid
    \/ EndOfInput

Spec == Init /\ [][Next]_vars

(* ---------------- the properties of the round ---------------- *)

Range(f) == {f[i] : i \in DOMAIN f}

\* the 4 suits x 13 ranks
AllCards == {Card(v, s) : v \in Range(VALUES), s \in Range(SUITS)}

\* the rank values as the rules state them: 2..10 at face value,
\* Jack, Queen and King 10, Ace 11
RuleValue(value) ==
    LET k == CHOOSE i \in 1..Len(VALUES) : VALUES[i] = value IN
    IF k <= 9 THEN k + 1 ELSE IF k <= 12 THEN 10 ELSE 11

RECURSIVE RuleTotal(_)
RuleTotal(cards) ==
    IF cards = <<>> THEN 0 ELSE RuleValue(Head(cards).value) + RuleTotal(Tail(cards))

Dealt == pc \in {"render", "await", "done", "panicked"}

\* C1: once the deck is built, the deck, the dealer hand and the player hand
\* are pairwise disjoint, hold no card twice and together hold exactly the 52
\* cards of 4 suits x 13 ranks; the freshly built deck is those 52 cards.
C1_Partition ==
    pc # "create_deck" =>
        LET all == deck \o dealer_cards \o player_cards IN
        /\ Cardinality(AllCards) = 52
        /\ Len(all) = 52
        /\ Range(all) = AllCards
        /\ (pc = "shuffle" => Len(deck) = 52 /\ Range(deck) = AllCards)

C1_Witness ==
    /\ pc = "done"
    /\ Len(player_cards) = 4
    /\ Len(dealer_cards) = 2
    /\ Len(deck) = 46

\* C2: the round never returns the win result with a player total above 21,
\* the two-card deal of two Aces followed by a stand included.
C2_NoWinAbove21 ==
    result = "Ok(true)" => RuleTotal(player_cards) <= 21

\* C3: a line "1" whose drawn card takes the player's total above 21 ends
\* the round in that step with Ok(false), whatever the dealer holds, and
\* without a stand comparison.
C3_BustingHitLoses ==
    [][(/\ pc = "await"
        /\ line' = "1"
        /\ nread' = nread + 1
        /\ deck # <<>>
        /\ RuleTotal(Append(player_cards, deck[Len(deck)])) > 21)
       => (/\ pc' = "done"
           /\ result' = "Ok(false)"
           /\ player_cards' = Append(player_cards, deck[Len(deck)])
           /\ out' \cap {"won", "lost"} = {})]_vars

C3_Witness ==
    /\ pc = "done"
    /\ line = "1"
    /\ "went over" \in out
    /\ RuleTotal(player_cards) > 21
    /\ RuleTotal(dealer_cards) > 21

\* C4: a line "2" ends the round in that step, with the win result iff the
\* player's total is at least the dealer's and the non-win result iff it is
\* less, totals being sums of rank values; a tie wins; no card is drawn.
C4_StandCompares ==
    [][(/\ pc = "await"
        /\ line' = "2"
        /\ nread' = nread + 1)
       => (/\ pc' = "done"
           /\ (result' = "Ok(true)"
                 <=> RuleTotal(player_cards) >= RuleTotal(dealer_cards))
           /\ (result' = "Ok(false)"
                 <=> RuleTotal(player_cards) < RuleTotal(dealer_cards))
           /\ UNCHANGED <<deck, dealer_cards, player_cards>>)]_vars

C4_Witness ==
    /\ pc = "done"
    /\ line = "2"
    /\ result = "Ok(true)"
    /\ RuleTotal(player_cards) = RuleTotal(dealer_cards)
    /\ Len(deck) + Len(player_cards) + Len(dealer_cards) = 52

\* C5: a line that is neither "1" nor "2" leaves the deck and both hands
\* unchanged, does not end the round and returns to waiting for a line,
\* however many such lines follow each other.
C5_InvalidLineIsInert ==
    [][(/\ pc = "await"
        /\ nread' = nread + 1
        /\ line' \notin {"1", "2"})
       => (/\ UNCHANGED <<deck, dealer_cards, player_cards>>
           /\ pc' = "await"
           /\ result' = "none")]_vars

C5_Witness ==
    /\ pc = "await"
    /\ line = "hit"
    /\ nread >= 3
    /\ out = {"invalid"}
    /\ Len(player_cards) = 2

\* C6: a hit on a deck too short for the draw does not crash the round,
\* which ends with the non-win result and the hands and deck as they were.
C6_ShortDeckHitLoses ==
    [][(/\ pc = "await"
        /\ line' = "1"
        /\ nread' = nread + 1
        /\ deck = <<>>)
       => (/\ pc' = "done"
           /\ result' = "Ok(false)"
           /\ UNCHANGED <<deck, dealer_cards, player_cards>>)]_vars

C6_Case == pc = "await" /\ deck = <<>>

\* C7: the round returns the win result only through a stand with the
\* player's total at least the dealer's; a busting hit, a losing stand and
\* the end of input (or a read error) return the non-win result, the last
\* of them without a win, loss or bust message.
C7_WinOnlyByStand ==
    /\ result = "Ok(true)" =>
         /\ pc = "done"
         /\ line = "2"
         /\ RuleTotal(player_cards) >= RuleTotal(dealer_cards)
    /\ pc = "done" => result \in {"Ok(true)", "Ok(false)"}
    /\ (pc = "done" /\ line = "1") => result = "Ok(false)"
    /\ (/\ pc = "done"
        /\ line = "2"
        /\ RuleTotal(player_cards) < RuleTotal(dealer_cards)) => result = "Ok(false)"
    /\ (pc = "done" /\ line \in {"None", "Some(Err)"}) =>
         /\ result = "Ok(false)"
         /\ out \cap {"won", "lost", "went over"} = {}

C7_Witness ==
    /\ pc = "done"
    /\ line = "Some(Err)"
    /\ nread >= 1
    /\ Len(player_cards) = 3
    /\ result = "Ok(false)"

\* C8: whenever the round waits for a line, the hands last rendered are the
\* current hands: the dealer's with its first card masked, the player's
\* with its total, the card of a hit that did not bust included.
C8_ShownIsCurrent ==
    pc = "await" =>
        /\ shownDealer = print_dealer_cards(dealer_cards)
        /\ shownPlayer = print_player_cards(player_cards)

\* C9: the dealer hand is the last 2 cards of the shuffled deck and never
\* changes afterwards; the player hand starts as the next 2 and changes only
\* by a hit, which appends the deck's last card and shortens the deck by one.
C9_HandsOnlyAppend ==
    [][/\ pc = "deal_dealer" =>
            /\ dealer_cards' = <<deck[Len(deck) - 1], deck[Len(deck)]>>
            /\ deck' = SubSeq(deck, 1, Len(deck) - 2)
            /\ player_cards' = <<>>
       /\ pc = "deal_player" =>
            /\ player_cards' = <<deck[Len(deck) - 1], deck[Len(deck)]>>
            /\ deck' = SubSeq(deck, 1, Len(deck) - 2)
       /\ pc \in {"deal_player", "render", "await", "done"} =>
            dealer_cards' = dealer_cards
       /\ pc \in {"render", "await", "done"} =>
            \/ player_cards' = player_cards /\ deck' = deck
            \/ /\ pc = "await"
               /\ line' = "1"
               /\ player_cards' = Append(player_cards, deck[Len(deck)])
               /\ deck' = SubSeq(deck, 1, Len(deck) - 1)]_vars

C9_Witness ==
    /\ pc = "await"
    /\ Len(player_cards) = 4
    /\ Len(dealer_cards) = 2
    /\ Len(deck) = 46

\* C10: the player holds at most 8 cards while a line is awaited and at
\* most 9 ever, so a round makes at most 7 hits; the built deck never holds
\* fewer than 41 cards and no hit finds the deck empty.
C10_HitsBounded ==
    /\ pc = "await" => Len(player_cards) <= 8
    /\ Len(player_cards) <= 9
    /\ Dealt => Len(player_cards) - 2 <= 7
    /\ pc # "create_deck" => Len(deck) >= 41
    /\ pc # "panicked"

C10_Witness ==
    /\ pc = "done"
    /\ Len(player_cards) = 9
    /\ Len(deck) = 41
    /\ result = "Ok(false)"

====
